---- MODULE Spec2Model ----
(***************************************************************************)
(* Scientific calculator: Parser (tokenize, toRPN, evaluateRPN, evaluate)  *)
(* of parser.ts and Calculator (append, backspace, clear, evaluate,        *)
(* format) of calculator.ts.                                               *)
(*                                                                         *)
(* A JavaScript string is a sequence of one-character strings.  A number   *)
(* (an IEEE double) is a record [k, n, d, ex]:                             *)
(*   k = "rat"   the rational n/d in lowest terms, d > 0, both at most     *)
(*               MaxNum; ex says that the double is exactly n/d (else it   *)
(*               is n/d up to a few units in the last place);              *)
(*   k = "nzero" negative zero;  k = "inf"  n = 1 or -1;  k = "nan";       *)
(*   k = "oor"   a double outside what the model represents (too large,    *)
(*               too fine, irrational): an evaluation that produces one    *)
(*               is outside the model and the step is not taken.           *)
(***************************************************************************)
EXTENDS Integers, Sequences, FiniteSets, TLC

VARIABLES input, display, op, ncalls, src, out

vars == <<input, display, op, ncalls, src, out>>

(* ------------------------------ bounds --------------------------------- *)

\* Calculator.append is taken while the buffer is shorter than this.
MaxLen == 4
\* Longest token sequence handed to toRPN.
MaxTokens == 4
\* Most binary operators in a generated expression tree.
MaxOps == 2
\* Most words in a generated expression text.
MaxWords == 4
\* Largest numerator and denominator the number model represents.
MaxNum == 30000

(* ---------------------------- characters ------------------------------- *)

Digits == <<"0", "1", "2", "3", "4", "5", "6", "7", "8", "9">>

IsDigit(c) == \E i \in 1..10 : Digits[i] = c

DigitVal(c) == (CHOOSE i \in 1..10 : Digits[i] = c) - 1

DigitChar(v) == Digits[v + 1]

Lower == {"a", "b", "c", "d", "e", "f", "g", "h", "i", "j", "k", "l", "m",
          "n", "o", "p", "q", "r", "s", "t", "u", "v", "w", "x", "y", "z"}

Upper == {"A", "B", "C", "D", "E", "F", "G", "H", "I", "J", "K", "L", "M",
          "N", "O", "P", "Q", "R", "S", "T", "U", "V", "W", "X", "Y", "Z"}

IsLetter(c) == c \in Lower \cup Upper

IsSpace(c) == c \in {" ", "\t", "\n"}

OpChars == {"+", "-", "*", "/", "^"}

\* /^[0-9a-zA-Z+\-*/^().]*$/
AllowedChar(c) == IsDigit(c) \/ IsLetter(c) \/ c \in OpChars \cup {"(", ")", "."}

(* ------------------------------ numbers -------------------------------- *)

RECURSIVE GCD(_, _)
GCD(a, b) == IF b = 0 THEN a ELSE GCD(b, a % b)

Abs(x) == IF x < 0 THEN -x ELSE x

RECURSIVE IsPow2(_)
IsPow2(d) == d = 1 \/ (d % 2 = 0 /\ IsPow2(d \div 2))

NaN == [k |-> "nan", n |-> 0, d |-> 0, ex |-> TRUE]
Inf(s) == [k |-> "inf", n |-> s, d |-> 0, ex |-> TRUE]
OOR == [k |-> "oor", n |-> 0, d |-> 0, ex |-> TRUE]
NegZero == [k |-> "nzero", n |-> 0, d |-> 1, ex |-> TRUE]
Int2Num(i) == [k |-> "rat", n |-> i, d |-> 1, ex |-> TRUE]
Zero == Int2Num(0)

\* The double for p/q (q > 0), computed from operands whose exactness is e.
\* A zero that comes out of inexact operands is not decided by the model.
MkRat(p, q, e) ==
    LET g == GCD(Abs(p), q)
        nn == p \div g
        dd == q \div g
    IN  IF Abs(nn) > MaxNum \/ dd > MaxNum THEN OOR
        ELSE IF nn = 0 /\ ~e THEN OOR
        ELSE [k |-> "rat", n |-> nn, d |-> dd, ex |-> e /\ IsPow2(dd)]

IsZero(x) == x.k = "nzero" \/ (x.k = "rat" /\ x.n = 0)
IsFin(x) == x.k \in {"rat", "nzero"}
\* The sign bit: -1 or 1 (not used for NaN).
Sgn(x) == IF x.k = "nzero" \/ x.n < 0 THEN -1 ELSE 1
Neg(x) ==
    CASE x.k = "nzero" -> Zero
      [] x.k = "rat" -> IF x.n = 0 THEN NegZero ELSE [x EXCEPT !.n = -x.n]
      [] x.k = "inf" -> Inf(-x.n)
      [] OTHER -> x

\* Number.isFinite
IsFinite(x) == IsFin(x)

\* a + b
Add(a, b) ==
    CASE a.k = "oor" \/ b.k = "oor" -> OOR
      [] a.k = "nan" \/ b.k = "nan" -> NaN
      [] a.k = "inf" /\ b.k = "inf" -> IF a.n = b.n THEN a ELSE NaN
      [] a.k = "inf" -> a
      [] b.k = "inf" -> b
      [] IsZero(a) /\ IsZero(b) ->
            IF Sgn(a) = -1 /\ Sgn(b) = -1 THEN NegZero ELSE Zero
      [] IsZero(a) -> b
      [] IsZero(b) -> a
      [] OTHER -> MkRat(a.n * b.d + b.n * a.d, a.d * b.d, a.ex /\ b.ex)

\* a - b
Sub(a, b) == Add(a, Neg(b))

\* a * b
Mul(a, b) ==
    CASE a.k = "oor" \/ b.k = "oor" -> OOR
      [] a.k = "nan" \/ b.k = "nan" -> NaN
      [] a.k = "inf" \/ b.k = "inf" ->
            IF IsZero(a) \/ IsZero(b) THEN NaN ELSE Inf(Sgn(a) * Sgn(b))
      [] IsZero(a) \/ IsZero(b) ->
            IF Sgn(a) * Sgn(b) = -1 THEN NegZero ELSE Zero
      [] OTHER -> MkRat(a.n * b.n, a.d * b.d, a.ex /\ b.ex)

\* a / b, IEEE division (a zero divisor included)
Div(a, b) ==
    CASE a.k = "oor" \/ b.k = "oor" -> OOR
      [] a.k = "nan" \/ b.k = "nan" -> NaN
      [] a.k = "inf" /\ b.k = "inf" -> NaN
      [] a.k = "inf" -> Inf(Sgn(a) * Sgn(b))
      [] b.k = "inf" -> IF Sgn(a) * Sgn(b) = -1 THEN NegZero ELSE Zero
      [] IsZero(b) -> IF IsZero(a) THEN NaN ELSE Inf(Sgn(a) * Sgn(b))
      [] IsZero(a) -> IF Sgn(a) * Sgn(b) = -1 THEN NegZero ELSE Zero
      [] OTHER -> MkRat(a.n * b.d * Sgn(b), a.d * Abs(b.n), a.ex /\ b.ex)

\* b^e for an integer b and e >= 0, capped just above MaxNum
RECURSIVE IntPow(_, _)
IntPow(b, e) ==
    IF e = 0 THEN 1
    ELSE LET r == IntPow(b, e - 1)
         IN  IF Abs(r) > MaxNum THEN r ELSE r * b

IsInt(x) == x.k = "rat" /\ x.d = 1
IsOddInt(x) == IsInt(x) /\ x.n % 2 # 0

\* base^e for a finite non-zero base and an exact integer e # 0.  2^15 is
\* beyond MaxNum, so a larger exponent leaves the model unless |base| = 1.
RatPow(a, e) ==
    IF Abs(a.n) = 1 /\ a.d = 1
    THEN IF a.ex THEN Int2Num(IF a.n = -1 /\ e % 2 # 0 THEN -1 ELSE 1) ELSE OOR
    ELSE IF Abs(e) > 15 THEN OOR
    ELSE LET pn == IntPow(a.n, Abs(e))
             pd == IntPow(a.d, Abs(e))
         IN  IF Abs(pn) > MaxNum \/ pd > MaxNum THEN OOR
             ELSE IF e > 0 THEN MkRat(pn, pd, a.ex)
             ELSE MkRat(IF pn < 0 THEN -pd ELSE pd, Abs(pn), a.ex)

\* Math.pow(a, b)
Pow(a, b) ==
    CASE a.k = "oor" \/ b.k = "oor" -> OOR
      [] b.k = "nan" -> NaN
      [] IsZero(b) -> Int2Num(1)
      [] a.k = "nan" -> NaN
      [] b.k = "rat" /\ ~b.ex /\ b.d = 1 -> OOR
      [] a.k = "inf" /\ a.n = 1 -> IF Sgn(b) = 1 THEN Inf(1) ELSE Zero
      [] a.k = "inf" ->
            IF Sgn(b) = 1
            THEN (IF IsOddInt(b) THEN Inf(-1) ELSE Inf(1))
            ELSE (IF IsOddInt(b) THEN NegZero ELSE Zero)
      [] IsZero(a) /\ Sgn(a) = 1 -> IF Sgn(b) = 1 THEN Zero ELSE Inf(1)
      [] IsZero(a) ->
            IF Sgn(b) = 1
            THEN (IF IsOddInt(b) THEN NegZero ELSE Zero)
            ELSE (IF IsOddInt(b) THEN Inf(-1) ELSE Inf(1))
      [] b.k = "inf" ->
            IF Abs(a.n) = a.d THEN (IF a.ex THEN NaN ELSE OOR)
            ELSE IF (Abs(a.n) > a.d) = (b.n = 1) THEN Inf(1) ELSE Zero
      [] ~IsInt(b) ->
            IF a.n < 0 THEN NaN
            ELSE IF a.n = 1 /\ a.d = 1 /\ a.ex THEN Int2Num(1) ELSE OOR
      [] OTHER -> RatPow(a, b.n)

\* a === 0
EqZero(a) == IsZero(a)
\* a <= 0 (false for NaN)
LeZero(a) == IsZero(a) \/ (a.k \in {"rat", "inf"} /\ a.n < 0)
\* a < 0 (false for NaN and for both zeros)
LtZero(a) == a.k \in {"rat", "inf"} /\ a.n < 0

\* The integer square root of m when m is a perfect square, else -1.
Isqrt(m) ==
    IF \E r \in 0..174 : r * r = m
    THEN CHOOSE r \in 0..174 : r * r = m
    ELSE -1

\* Math.sin, Math.cos, Math.tan, Math.log10, Math.log, Math.sqrt on the
\* arguments whose result the model represents.
MathSin(a) ==
    CASE a.k = "oor" -> OOR
      [] a.k \in {"nan", "inf"} -> NaN
      [] IsZero(a) -> a
      [] OTHER -> OOR
MathCos(a) ==
    CASE a.k = "oor" -> OOR
      [] a.k \in {"nan", "inf"} -> NaN
      [] IsZero(a) -> Int2Num(1)
      [] OTHER -> OOR
MathTan(a) == MathSin(a)
MathLog10(a) ==
    CASE a.k = "oor" -> OOR
      [] a.k = "nan" -> NaN
      [] a.k = "inf" -> IF a.n = 1 THEN a ELSE NaN
      [] IsZero(a) -> Inf(-1)
      [] a.n < 0 -> NaN
      [] a = Int2Num(1) -> Zero
      [] a = Int2Num(10) -> Int2Num(1)
      [] OTHER -> OOR
MathLog(a) ==
    CASE a.k = "oor" -> OOR
      [] a.k = "nan" -> NaN
      [] a.k = "inf" -> IF a.n = 1 THEN a ELSE NaN
      [] IsZero(a) -> Inf(-1)
      [] a.n < 0 -> NaN
      [] a = Int2Num(1) -> Zero
      [] OTHER -> OOR
MathSqrt(a) ==
    CASE a.k = "oor" -> OOR
      [] a.k = "nan" -> NaN
      [] a.k = "inf" -> IF a.n = 1 THEN a ELSE NaN
      [] IsZero(a) -> a
      [] a.n < 0 -> NaN
      [] Isqrt(a.n) >= 0 /\ Isqrt(a.d) >= 0 -> MkRat(Isqrt(a.n), Isqrt(a.d), a.ex)
      [] OTHER -> OOR

(* ------------------------------ parser.ts ------------------------------ *)

FUNCTIONS == {<<"s", "i", "n">>, <<"c", "o", "s">>, <<"t", "a", "n">>,
              <<"l", "o", "g">>, <<"l", "n">>, <<"s", "q", "r", "t">>}

\* CONSTANTS: Math.PI and Math.E are irrational, outside the number model.
CONSTANT_NAMES == {<<"p", "i">>, <<"e">>}
ConstantValue(id) == OOR

PRECEDENCE(v) ==
    CASE v = <<"+">> -> 1
      [] v = <<"-">> -> 1
      [] v = <<"*">> -> 2
      [] v = <<"/">> -> 2
      [] v = <<"^">> -> 3

RIGHT_ASSOC(v) == v \in {<<"^">>}

MsgInvalidNumber == <<"I", "n", "v", "a", "l", "i", "d", " ", "n", "u", "m", "b", "e", "r", " ", "f", "o", "r", "m", "a", "t">>
MsgUnknownIdentifier == <<"U", "n", "k", "n", "o", "w", "n", " ", "i", "d", "e", "n", "t", "i", "f", "i", "e", "r", ":", " ">>
MsgInvalidCharacter == <<"I", "n", "v", "a", "l", "i", "d", " ", "c", "h", "a", "r", "a", "c", "t", "e", "r", ":", " ">>
MsgMismatched == <<"M", "i", "s", "m", "a", "t", "c", "h", "e", "d", " ", "p", "a", "r", "e", "n", "t", "h", "e", "s", "e", "s">>
MsgInvalidExpression == <<"I", "n", "v", "a", "l", "i", "d", " ", "e", "x", "p", "r", "e", "s", "s", "i", "o", "n">>
MsgDivisionByZero == <<"D", "i", "v", "i", "s", "i", "o", "n", " ", "b", "y", " ", "z", "e", "r", "o">>
MsgUnknownOperator == <<"U", "n", "k", "n", "o", "w", "n", " ", "o", "p", "e", "r", "a", "t", "o", "r">>
MsgInvalidFunctionCall == <<"I", "n", "v", "a", "l", "i", "d", " ", "f", "u", "n", "c", "t", "i", "o", "n", " ", "c", "a", "l", "l">>
MsgLogDomain == <<"L", "o", "g", " ", "d", "o", "m", "a", "i", "n", " ", "e", "r", "r", "o", "r">>
MsgLnDomain == <<"L", "n", " ", "d", "o", "m", "a", "i", "n", " ", "e", "r", "r", "o", "r">>
MsgSqrtDomain == <<"S", "q", "r", "t", " ", "d", "o", "m", "a", "i", "n", " ", "e", "r", "r", "o", "r">>
MsgUnknownFunction == <<"U", "n", "k", "n", "o", "w", "n", " ", "f", "u", "n", "c", "t", "i", "o", "n">>

\* What a stage returns: st = "ok" with its tokens or its number, st = "throw"
\* with the Error's message, st = "oor" when the number left the model.
OkToks(ts) == [st |-> "ok", toks |-> ts, v |-> Zero, msg |-> <<>>]
OkNum(x) == [st |-> "ok", toks |-> <<>>, v |-> x, msg |-> <<>>]
Throw(m) == [st |-> "throw", toks |-> <<>>, v |-> Zero, msg |-> m]
Unmodelled == [st |-> "oor", toks |-> <<>>, v |-> Zero, msg |-> <<>>]

Token(ty, val) == [type |-> ty, value |-> val]

Front(s) == SubSeq(s, 1, Len(s) - 1)

Count(s, c) == Cardinality({i \in 1..Len(s) : s[i] = c})

IsNumChar(c) == IsDigit(c) \/ c = "."
IsIdChar(c) == IsLetter(c) \/ IsDigit(c)

\* The end of the maximal run of [0-9.] (of [a-zA-Z0-9]) that starts at i.
RECURSIVE NumRunEnd(_, _)
NumRunEnd(s, i) ==
    IF i < Len(s) /\ IsNumChar(s[i + 1]) THEN NumRunEnd(s, i + 1) ELSE i
RECURSIVE IdRunEnd(_, _)
IdRunEnd(s, i) ==
    IF i < Len(s) /\ IsIdChar(s[i + 1]) THEN IdRunEnd(s, i + 1) ELSE i

\* expr.replace(/\s+/g, '')
StripSpace(expr) == SelectSeq(expr, LAMBDA c : ~IsSpace(c))

RECURSIVE TokenizeFrom(_, _, _)
TokenizeFrom(cleaned, i, tokens) ==
    IF i > Len(cleaned) THEN OkToks(tokens)
    ELSE LET ch == cleaned[i] IN
      IF IsNumChar(ch)
      THEN LET j == NumRunEnd(cleaned, i)
               num == SubSeq(cleaned, i, j)
           IN  IF Count(num, ".") + 1 > 2 THEN Throw(MsgInvalidNumber)
               ELSE TokenizeFrom(cleaned, j + 1, Append(tokens, Token("number", num)))
      ELSE IF IsLetter(ch)
      THEN LET j == IdRunEnd(cleaned, i)
               id == SubSeq(cleaned, i, j)
           IN  IF id \in FUNCTIONS
               THEN TokenizeFrom(cleaned, j + 1, Append(tokens, Token("fn", id)))
               ELSE IF id \in CONSTANT_NAMES
               THEN TokenizeFrom(cleaned, j + 1, Append(tokens, Token("const", id)))
               ELSE Throw(MsgUnknownIdentifier \o id)
      ELSE IF ch = "(" \/ ch = ")"
      THEN TokenizeFrom(cleaned, i + 1, Append(tokens, Token("paren", <<ch>>)))
      ELSE IF ch \in OpChars
      THEN TokenizeFrom(cleaned, i + 1, Append(tokens, Token("op", <<ch>>)))
      ELSE Throw(MsgInvalidCharacter \o <<ch>>)

\* Parser.tokenize
tokenize(expr) == TokenizeFrom(StripSpace(expr), 1, <<>>)

\* ShouldPop with every operator taken as left-associative.
ShouldPopAllLeft(top, t) == PRECEDENCE(t.value) <= PRECEDENCE(top.value)

\* ShouldPop with every operator taken as right-associative.
ShouldPopAllRight(top, t) == PRECEDENCE(t.value) < PRECEDENCE(top.value)

\* The condition of line 75 under which the operator on top is popped for t.
ShouldPop(top, t) ==
    LET p1 == PRECEDENCE(top.value)
        p2 == PRECEDENCE(t.value)
    IN  (RIGHT_ASSOC(t.value) /\ p2 < p1) \/ (~RIGHT_ASSOC(t.value) /\ p2 <= p1)

\* The while loop of the op branch (lines 69-80): [output, ops] after it.
RECURSIVE PopForOp(_, _, _)
PopForOp(output, ops, t) ==
    IF Len(ops) > 0
    THEN LET top == ops[Len(ops)] IN
         IF top.type = "fn" THEN PopForOp(Append(output, top), Front(ops), t)
         ELSE IF top.type = "op" /\ ShouldPop(top, t)
         THEN PopForOp(Append(output, top), Front(ops), t)
         ELSE [output |-> output, ops |-> ops]
    ELSE [output |-> output, ops |-> ops]

\* The while loop of the ')' branch (lines 85-90).
RECURSIVE PopToParen(_, _)
PopToParen(output, ops) ==
    IF Len(ops) > 0
    THEN LET top == ops[Len(ops)] IN
         IF top.type = "paren" /\ top.value = <<"(">>
         THEN [found |-> TRUE, output |-> output, ops |-> Front(ops)]
         ELSE PopToParen(Append(output, top), Front(ops))
    ELSE [found |-> FALSE, output |-> output, ops |-> ops]

\* One iteration of the for loop of toRPN (lines 63-94) on token t.
RPNStep(s, t) ==
    IF s.st # "ok" THEN s
    ELSE IF t.type = "number" \/ t.type = "const"
    THEN [s EXCEPT !.output = Append(s.output, t)]
    ELSE IF t.type = "fn"
    THEN [s EXCEPT !.ops = Append(s.ops, t)]
    ELSE IF t.type = "op"
    THEN LET r == PopForOp(s.output, s.ops, t)
         IN  [s EXCEPT !.output = r.output, !.ops = Append(r.ops, t)]
    ELSE IF t.type = "paren"
    THEN IF t.value = <<"(">> THEN [s EXCEPT !.ops = Append(s.ops, t)]
         ELSE LET r == PopToParen(s.output, s.ops) IN
              IF ~r.found THEN [s EXCEPT !.st = "throw"]
              ELSE IF Len(r.ops) > 0 /\ r.ops[Len(r.ops)].type = "fn"
              THEN [s EXCEPT !.output = Append(r.output, r.ops[Len(r.ops)]),
                             !.ops = Front(r.ops)]
              ELSE [s EXCEPT !.output = r.output, !.ops = r.ops]
    ELSE s

\* output and ops after the first k tokens (st = "throw" once line 91 threw).
RECURSIVE RPNState(_, _)
RPNState(tokens, k) ==
    IF k = 0 THEN [st |-> "ok", output |-> <<>>, ops |-> <<>>]
    ELSE RPNStep(RPNState(tokens, k - 1), tokens[k])

\* Drain without the check of line 99: a left-over parenthesis is output.
DrainUnchecked(output, ops) ==
    OkToks(output \o [i \in 1..Len(ops) |-> ops[Len(ops) + 1 - i]])

\* The final loop of toRPN (lines 97-101).
RECURSIVE Drain(_, _)
Drain(output, ops) ==
    IF Len(ops) > 0
    THEN LET top == ops[Len(ops)] IN
         IF top.type = "paren" THEN Throw(MsgMismatched)
         ELSE Drain(Append(output, top), Front(ops))
    ELSE OkToks(output)

\* Parser.toRPN
toRPN(tokens) ==
    LET s == RPNState(tokens, Len(tokens))
    IN  IF s.st = "throw" THEN Throw(MsgMismatched) ELSE Drain(s.output, s.ops)

\* The value of a digit string, capped just above MaxNum.
RECURSIVE DigitsVal(_, _)
DigitsVal(s, acc) ==
    IF s = <<>> \/ acc > MaxNum THEN acc
    ELSE DigitsVal(Tail(s), acc * 10 + DigitVal(s[1]))

RECURSIVE StripTrailingZeros(_)
StripTrailingZeros(s) ==
    IF s # <<>> /\ s[Len(s)] = "0" THEN StripTrailingZeros(Front(s)) ELSE s

\* Number(text) for a run of digits with at most one '.': '.' alone is NaN.
Number(text) ==
    LET dot == IF \E i \in 1..Len(text) : text[i] = "."
               THEN CHOOSE i \in 1..Len(text) : text[i] = "."
               ELSE Len(text) + 1
        ip == SubSeq(text, 1, dot - 1)
        fp == StripTrailingZeros(SubSeq(text, dot + 1, Len(text)))
        den == IntPow(10, Len(fp))
        num == DigitsVal(ip \o fp, 0)
    IN  IF Len(text) = 1 /\ dot = 1 THEN NaN
        ELSE IF den > MaxNum \/ num > MaxNum THEN OOR
        ELSE MkRat(num, den, TRUE)

\* ApplyOp without the zero test of line 119.
ApplyOpUnchecked(v, a, b) ==
    CASE v = <<"+">> -> OkNum(Add(a, b))
      [] v = <<"-">> -> OkNum(Sub(a, b))
      [] v = <<"*">> -> OkNum(Mul(a, b))
      [] v = <<"/">> -> OkNum(Div(a, b))
      [] v = <<"^">> -> OkNum(Pow(a, b))
      [] OTHER -> Throw(MsgUnknownOperator)

\* The arithmetic of the op branch (lines 115-122) on operands a and b.
ApplyOp(v, a, b) ==
    CASE v = <<"+">> -> OkNum(Add(a, b))
      [] v = <<"-">> -> OkNum(Sub(a, b))
      [] v = <<"*">> -> OkNum(Mul(a, b))
      [] v = <<"/">> -> IF EqZero(b) THEN Throw(MsgDivisionByZero)
                        ELSE OkNum(Div(a, b))
      [] v = <<"^">> -> OkNum(Pow(a, b))
      [] OTHER -> Throw(MsgUnknownOperator)

\* The fn branch (lines 126-140) on argument a.
ApplyFn(v, a) ==
    CASE v = <<"s", "i", "n">> -> OkNum(MathSin(a))
      [] v = <<"c", "o", "s">> -> OkNum(MathCos(a))
      [] v = <<"t", "a", "n">> -> OkNum(MathTan(a))
      [] v = <<"l", "o", "g">> -> IF LeZero(a) THEN Throw(MsgLogDomain)
                                  ELSE OkNum(MathLog10(a))
      [] v = <<"l", "n">> -> IF LeZero(a) THEN Throw(MsgLnDomain)
                             ELSE OkNum(MathLog(a))
      [] v = <<"s", "q", "r", "t">> -> IF LtZero(a) THEN Throw(MsgSqrtDomain)
                                       ELSE OkNum(MathSqrt(a))
      [] OTHER -> Throw(MsgUnknownFunction)

\* Pushing the outcome r of an operation on the stack stk.
PushResult(s, stk, r) ==
    IF r.st = "throw" THEN [s EXCEPT !.st = "throw", !.msg = r.msg]
    ELSE IF r.v.k = "oor" THEN [s EXCEPT !.st = "oor"]
    ELSE [s EXCEPT !.stack = Append(stk, r.v)]

\* One iteration of the for loop of evaluateRPN (lines 108-142) on token t.
EvalStep(s, t) ==
    IF s.st # "ok" THEN s
    ELSE IF t.type = "number" THEN PushResult(s, s.stack, OkNum(Number(t.value)))
    ELSE IF t.type = "const" THEN PushResult(s, s.stack, OkNum(ConstantValue(t.value)))
    ELSE IF t.type = "op"
    THEN IF Len(s.stack) < 2
         THEN [s EXCEPT !.st = "throw", !.msg = MsgInvalidExpression]
         ELSE LET b == s.stack[Len(s.stack)]
                  a == s.stack[Len(s.stack) - 1]
              IN  PushResult(s, SubSeq(s.stack, 1, Len(s.stack) - 2),
                             ApplyOp(t.value, a, b))
    ELSE IF t.type = "fn"
    THEN IF Len(s.stack) < 1
         THEN [s EXCEPT !.st = "throw", !.msg = MsgInvalidFunctionCall]
         ELSE PushResult(s, Front(s.stack), ApplyFn(t.value, s.stack[Len(s.stack)]))
    ELSE s

\* The stack after the first k tokens of rpn.
RECURSIVE EvalState(_, _)
EvalState(rpn, k) ==
    IF k = 0 THEN [st |-> "ok", stack |-> <<>>, msg |-> <<>>]
    ELSE EvalStep(EvalState(rpn, k - 1), rpn[k])

\* Parser.evaluateRPN
evaluateRPN(rpn) ==
    LET s == EvalState(rpn, Len(rpn))
    IN  IF s.st = "throw" THEN Throw(s.msg)
        ELSE IF s.st = "oor" THEN Unmodelled
        ELSE IF Len(s.stack) # 1 THEN Throw(MsgInvalidExpression)
        ELSE OkNum(s.stack[1])

\* Parser.evaluate
ParserEvaluate(expr) ==
    LET tokens == tokenize(expr) IN
    IF tokens.st # "ok" THEN tokens
    ELSE LET rpn == toRPN(tokens.toks) IN
         IF rpn.st # "ok" THEN rpn
         ELSE evaluateRPN(rpn.toks)

(* ---------------------------- calculator.ts ---------------------------- *)

\* The significant digits toPrecision keeps (the 12 of line 40).
Precision == 12

\* The decimal digits of a natural number.
RECURSIVE IntDigits(_)
IntDigits(m) ==
    IF m < 10 THEN <<DigitChar(m)>>
    ELSE Append(IntDigits(m \div 10), DigitChar(m % 10))

\* Long division: the next cnt fraction digits of r/d, counting from the
\* first non-zero digit when sig is FALSE; [ds, r] with the last remainder.
RECURSIVE FracDigits(_, _, _, _, _)
FracDigits(r, d, cnt, sig, acc) ==
    IF cnt = 0 THEN [ds |-> acc, r |-> r]
    ELSE LET q == (r * 10) \div d
             r2 == (r * 10) % d
             s2 == sig \/ q # 0
         IN  FracDigits(r2, d, IF s2 THEN cnt - 1 ELSE cnt, s2,
                        Append(acc, DigitChar(q)))

\* A digit string plus one in its last place (the carry stays inside it
\* for every number of the model).
RECURSIVE IncDigits(_)
IncDigits(ds) ==
    IF ds = <<>> THEN <<"1">>
    ELSE IF ds[Len(ds)] = "9" THEN Append(IncDigits(Front(ds)), "0")
    ELSE Append(Front(ds), DigitChar(DigitVal(ds[Len(ds)]) + 1))

\* The digits of |x| that toPrecision keeps, before rounding, and the
\* remainder left below them.
KeptDigits(x) ==
    LET n == Abs(x.n)
        ipart == n \div x.d
    IN  FracDigits(n % x.d, x.d,
                   IF ipart > 0 THEN Precision - Len(IntDigits(ipart)) ELSE Precision,
                   ipart > 0, <<>>)

\* Whether the model decides how n.toPrecision(12) rounds: an inexact
\* double within a hair of a rounding tie is not decided.
RoundDecided(x) ==
    IF x.k = "nzero" THEN TRUE
    ELSE IF x.n = 0 THEN TRUE
    ELSE IF x.ex THEN TRUE
    ELSE Abs(2 * KeptDigits(x).r - x.d) * 1000 > x.d

\* n.toPrecision(12) for a finite n of the model, after
\* Number.parseFloat(String(n)), which turns -0 into 0.
ToPrecision(x) ==
    IF x.k = "nzero" \/ x.n = 0
    THEN <<"0", ".">> \o [i \in 1..(Precision - 1) |-> "0"]
    ELSE LET idig == IntDigits(Abs(x.n) \div x.d)
             f == KeptDigits(x)
             up == 2 * f.r >= x.d
             all == IF up THEN IncDigits(idig \o f.ds) ELSE idig \o f.ds
             body == SubSeq(all, 1, Len(idig)) \o <<".">> \o
                     SubSeq(all, Len(idig) + 1, Len(all))
         IN  (IF x.n < 0 THEN <<"-">> ELSE <<>>) \o body

AllZerosFrom(s, i) == i <= Len(s) /\ \A j \in i..Len(s) : s[j] = "0"

\* s.replace(/(?:\.0+|(?<=\.[0-9]*[1-9])0+)$/, ''): the leftmost match is
\* cut off.
StripFraction(s) ==
    LET m1(i) == s[i] = "." /\ AllZerosFrom(s, i + 1)
        m2(i) == /\ AllZerosFrom(s, i)
                 /\ i > 2
                 /\ IsDigit(s[i - 1]) /\ s[i - 1] # "0"
                 /\ \E p \in 1..(i - 2) :
                       s[p] = "." /\ \A q \in (p + 1)..(i - 2) : IsDigit(s[q])
        hits == {i \in 1..Len(s) : m1(i) \/ m2(i)}
    IN  IF hits = {} THEN s
        ELSE SubSeq(s, 1, (CHOOSE i \in hits : \A j \in hits : i <= j) - 1)

\* s.replace(/\.?0+$/, ''): the leftmost match is cut off.
StripZeros(s) ==
    LET m(i) == AllZerosFrom(s, i) \/ (s[i] = "." /\ AllZerosFrom(s, i + 1))
        hits == {i \in 1..Len(s) : m(i)}
    IN  IF hits = {} THEN s
        ELSE SubSeq(s, 1, (CHOOSE i \in hits : \A j \in hits : i <= j) - 1)

\* Calculator.format
format(x) == StripZeros(StripFraction(ToPrecision(x)))

StrZero == <<"0">>
StrError == <<"E", "r", "r", "o", "r">>
ErrorPrefix == <<"E", "r", "r", "o", "r", ":", " ">>

\* this.input || '0'
OrZero(s) == IF s = <<>> THEN StrZero ELSE s

(* --------------------------- the input session ------------------------- *)

\* op: the last Calculator call and its argument; ncalls: how many times
\* that call invoked onChange; display: the last string onChange received.
Call(name, arg) == [name |-> name, arg |-> arg]

NotRun == [st |-> "none", toks |-> <<>>, v |-> Zero, msg |-> <<>>]

\* The fragments the front end appends: keys, a function button ('ln('),
\* a pasted group, the empty string, and two fragments append rejects.
Fragments == {<<"5">>, <<"0">>, <<"/">>, <<".">>, <<")">>, <<"(", "2", "-", "2", ")">>,
              <<"l", "n", "(">>, <<>>, <<"$">>, <<"5", "$">>}

Init ==
    /\ input = <<>>
    /\ display = <<>>
    /\ op = Call("new", <<>>)
    /\ ncalls = 0
    /\ src = <<>>
    /\ out = NotRun

\* append that drops the characters it does not allow and keeps the rest.
appendFiltered(value) ==
    /\ Len(input) < MaxLen
    /\ op' = Call("append", value)
    /\ input' = input \o SelectSeq(value, AllowedChar)
    /\ display' = OrZero(input')
    /\ ncalls' = 1
    /\ UNCHANGED <<src, out>>

\* Calculator.append(value)
append(value) ==
    /\ Len(input) < MaxLen
    /\ op' = Call("append", value)
    /\ IF \E i \in 1..Len(value) : ~AllowedChar(value[i])
       THEN /\ ncalls' = 0
            /\ UNCHANGED <<input, display>>
       ELSE /\ input' = input \o value
            /\ display' = OrZero(input')
            /\ ncalls' = 1
    /\ UNCHANGED <<src, out>>

\* Calculator.backspace()
backspace ==
    /\ input' = SubSeq(input, 1, Len(input) - 1)
    /\ display' = OrZero(input')
    /\ op' = Call("backspace", <<>>)
    /\ ncalls' = 1
    /\ UNCHANGED <<src, out>>

\* Calculator.clear()
clear ==
    /\ input' = <<>>
    /\ display' = StrZero
    /\ op' = Call("clear", <<>>)
    /\ ncalls' = 1
    /\ UNCHANGED <<src, out>>

\* Whether the model represents the outcome of evaluating text.
Modelled(text) ==
    LET r == ParserEvaluate(text)
    IN  IF r.st = "throw" THEN TRUE
        ELSE IF r.st # "ok" THEN FALSE
        ELSE IF IsFinite(r.v) THEN RoundDecided(r.v)
        ELSE TRUE

\* evaluate that stores what it displays on the failure path too.
evaluateStoring ==
    LET r == ParserEvaluate(OrZero(input)) IN
    /\ Modelled(OrZero(input))
    /\ op' = Call("evaluate", <<>>)
    /\ ncalls' = 1
    /\ input' = (IF r.st = "ok"
                 THEN (IF IsFinite(r.v) THEN format(r.v) ELSE StrError)
                 ELSE ErrorPrefix \o r.msg)
    /\ display' = input'
    /\ UNCHANGED <<src, out>>

\* Calculator.evaluate()
evaluate ==
    LET r == ParserEvaluate(OrZero(input)) IN
    /\ Modelled(OrZero(input))
    /\ op' = Call("evaluate", <<>>)
    /\ ncalls' = 1
    /\ IF r.st = "ok"
       THEN /\ input' = (IF IsFinite(r.v) THEN format(r.v) ELSE StrError)
            /\ display' = input'
       ELSE /\ display' = ErrorPrefix \o r.msg
            /\ UNCHANGED input
    /\ UNCHANGED <<src, out>>

Next ==
    \/ \E value \in Fragments : append(value)
    \/ backspace
    \/ clear
    \/ evaluate

Spec == Init /\ [][Next]_vars

(* ------------------- the parser as a pure function --------------------- *)

\* The session variables of a specification that only runs the parser.
SessionIdle ==
    /\ input = <<>>
    /\ display = <<>>
    /\ op = Call("new", <<>>)
    /\ ncalls = 0

\* Token sequences for toRPN: one token of each kind, every operator, both
\* parentheses.
TokenAlphabet ==
    {Token("number", <<"5">>), Token("const", <<"e">>), Token("fn", <<"l", "n">>),
     Token("paren", <<"(">>), Token("paren", <<")">>)}
    \cup {Token("op", <<c>>) : c \in OpChars}

TokenSeqs == UNION {[1..n -> TokenAlphabet] : n \in 0..MaxTokens}

InitRPN == SessionIdle /\ src \in TokenSeqs /\ out = NotRun

\* rpn = parser.toRPN(tokens)
ApplyToRPN ==
    /\ out.st = "none"
    /\ out' = toRPN(src)
    /\ UNCHANGED <<input, display, op, ncalls, src>>

NextRPN == ApplyToRPN

SpecRPN == InitRPN /\ [][NextRPN]_vars

\* Expression trees: <<"lit", n>> or <<"bin", operator, left, right>>.
Lits == {2, 3}

RECURSIVE TreesOf(_)
TreesOf(n) ==
    IF n = 0 THEN {<<"lit", v>> : v \in Lits}
    ELSE UNION {{<<"bin", o, l, r>> : o \in OpChars, l \in TreesOf(i),
                                      r \in TreesOf(n - 1 - i)} : i \in 0..(n - 1)}

Trees == UNION {TreesOf(n) : n \in 0..MaxOps}

PrecOf(t) == IF t[1] = "lit" THEN 4 ELSE PRECEDENCE(<<t[2]>>)

\* The infix text of a tree.  With full, every operand that is itself an
\* operation is parenthesised; without, only where the grouping of the tree
\* differs from the reference grouping: ^ binds tightest and groups to the
\* right, * and / bind tighter than + and -, and + - * / group to the left.
RECURSIVE Render(_, _)
Render(t, full) ==
    IF t[1] = "lit" THEN IntDigits(t[2])
    ELSE LET o == t[2]
             p == PRECEDENCE(<<o>>)
             wrap(c, need) == IF c[1] = "bin" /\ (full \/ need)
                              THEN <<"(">> \o Render(c, full) \o <<")">>
                              ELSE Render(c, full)
             needL == PrecOf(t[3]) < p \/ (PrecOf(t[3]) = p /\ o = "^")
             needR == PrecOf(t[4]) < p \/ (PrecOf(t[4]) = p /\ o # "^")
         IN  wrap(t[3], needL) \o <<o>> \o wrap(t[4], needR)

\* The value of a tree: each operation applied to the values of its operands.
RECURSIVE TreeValue(_)
TreeValue(t) ==
    IF t[1] = "lit" THEN Int2Num(t[2])
    ELSE LET a == TreeValue(t[3])
             b == TreeValue(t[4])
         IN  CASE t[2] = "+" -> Add(a, b)
               [] t[2] = "-" -> Sub(a, b)
               [] t[2] = "*" -> Mul(a, b)
               [] t[2] = "/" -> Div(a, b)
               [] t[2] = "^" -> Pow(a, b)

\* Every division of the tree is exact and by a non-zero divisor.
RECURSIVE ExactDivisions(_)
ExactDivisions(t) ==
    IF t[1] = "lit" THEN TRUE
    ELSE /\ ExactDivisions(t[3])
         /\ ExactDivisions(t[4])
         /\ t[2] = "/" => /\ ~IsZero(TreeValue(t[4]))
                          /\ IsInt(TreeValue(t))

InitTree == SessionIdle /\ src \in Trees \X BOOLEAN /\ out = NotRun

\* result = parser.evaluate(text) on the text of the tree
ApplyEvaluate ==
    /\ out.st = "none"
    /\ out' = ParserEvaluate(Render(src[1], src[2]))
    /\ UNCHANGED <<input, display, op, ncalls, src>>

NextTree == ApplyEvaluate

SpecTree == InitTree /\ [][NextTree]_vars

\* Expression texts: up to MaxWords words, function names arriving with
\* their opening parenthesis.
Words == {<<"s", "q", "r", "t", "(">>, <<"l", "o", "g", "(">>, <<"l", "n", "(">>,
          <<"-">>, <<"0">>, <<"1">>, <<"5">>, <<")">>}

RECURSIVE Concat(_)
Concat(ws) == IF ws = <<>> THEN <<>> ELSE ws[1] \o Concat(Tail(ws))

Texts == {Concat(ws) : ws \in UNION {[1..n -> Words] : n \in 0..MaxWords}}

InitText == SessionIdle /\ src \in Texts /\ out = NotRun

\* result = parser.evaluate(text)
ApplyEvaluateText ==
    /\ out.st = "none"
    /\ out' = ParserEvaluate(src)
    /\ UNCHANGED <<input, display, op, ncalls, src>>

NextText == ApplyEvaluateText

SpecText == InitText /\ [][NextText]_vars

(* -------------------------------- claims ------------------------------- *)

\* The step just taken is Calculator.evaluate().
EvaluateStep == op'.name = "evaluate"

HasPrefix(s, pre) == Len(s) >= Len(pre) /\ SubSeq(s, 1, Len(pre)) = pre

\* C1: when the pipeline throws on the buffer, evaluate() leaves the buffer as
\* it was and calls the display callback once with 'Error: ' and the message;
\* a backspace() that follows removes the last character of that buffer.
C1_FailureKeepsBuffer ==
    [][ /\ (EvaluateStep /\ ParserEvaluate(OrZero(input)).st = "throw")
            => /\ input' = input
               /\ ncalls' = 1
               /\ display' = ErrorPrefix \o ParserEvaluate(OrZero(input)).msg
        /\ (op.name = "evaluate" /\ HasPrefix(display, ErrorPrefix)
              /\ op'.name = "backspace")
            => /\ input' = SubSeq(input, 1, Len(input) - 1)
               /\ display' = OrZero(input')
               /\ ~HasPrefix(display', ErrorPrefix) ]_vars

\* '5/0' was evaluated and failed with the buffer kept.
C1_Witness ==
    /\ op.name = "evaluate"
    /\ input = <<"5", "/", "0">>
    /\ display = ErrorPrefix \o MsgDivisionByZero

\* C2: a well-formed expression of integer literals, + - * / ^ and balanced
\* parentheses, with exact divisions by non-zero divisors, evaluates to the
\* value of its reference grouping.
C2_ReferenceGrouping ==
    (out.st # "none" /\ ExactDivisions(src[1]) /\ TreeValue(src[1]).k # "oor")
        => (out.st = "ok" /\ out.v = TreeValue(src[1]))

\* '2^3^2' evaluated to 512.
C2_Witness ==
    /\ src = <<(<<"bin", "^", <<"lit", 2>>, <<"bin", "^", <<"lit", 3>>, <<"lit", 2>>>>>>), FALSE>>
    /\ out.st = "ok"
    /\ out.v = Int2Num(512)

TextSqrtMinus1 == <<"s", "q", "r", "t", "(", "-", "1", ")">>
TextLog0 == <<"l", "o", "g", "(", "0", ")">>
TextLnMinus5 == <<"l", "n", "(", "-", "5", ")">>

\* C3: 'sqrt(-1)', 'log(0)' and 'ln(-5)' each fail with the domain error of
\* their function.
C3_DomainErrors ==
    out.st # "none" =>
        /\ src = TextSqrtMinus1 => (out.st = "throw" /\ out.msg = MsgSqrtDomain)
        /\ src = TextLog0 => (out.st = "throw" /\ out.msg = MsgLogDomain)
        /\ src = TextLnMinus5 => (out.st = "throw" /\ out.msg = MsgLnDomain)

\* evaluateRPN on the buffer reaches a '/' whose right operand is zero, with
\* a left operand on the stack.
DividesByZero(text) ==
    LET tokens == tokenize(text)
        rpn == toRPN(tokens.toks)
    IN  /\ tokens.st = "ok"
        /\ rpn.st = "ok"
        /\ \E k \in 1..Len(rpn.toks) :
              LET s == EvalState(rpn.toks, k - 1) IN
              /\ rpn.toks[k] = Token("op", <<"/">>)
              /\ s.st = "ok"
              /\ Len(s.stack) >= 2
              /\ EqZero(s.stack[Len(s.stack)])

\* C4: when evaluation applies '/' to a zero right operand it fails with
\* 'Division by zero'; evaluate() then keeps the buffer and neither stores
\* nor displays a non-finite result or 'Error'.
C4_DivisionByZero ==
    [][ (EvaluateStep /\ DividesByZero(OrZero(input)))
            => /\ ParserEvaluate(OrZero(input)).st = "throw"
               /\ ParserEvaluate(OrZero(input)).msg = MsgDivisionByZero
               /\ input' = input
               /\ display' = ErrorPrefix \o MsgDivisionByZero
               /\ input' # StrError
               /\ display' # StrError ]_vars

\* '5/(2-2)' was evaluated: the zero divisor came from a sub-expression.
C4_Witness ==
    /\ op.name = "evaluate"
    /\ input = <<"5", "/", "(", "2", "-", "2", ")">>
    /\ display = ErrorPrefix \o MsgDivisionByZero

\* The number of parentheses v among the first k tokens.
ParenCount(tokens, k, v) ==
    Cardinality({i \in 1..k : tokens[i] = Token("paren", <<v>>)})

\* Some prefix holds more ')' than '(', or the whole holds more '(' than ')'.
Unbalanced(tokens) ==
    \/ \E k \in 1..Len(tokens) : ParenCount(tokens, k, ")") > ParenCount(tokens, k, "(")
    \/ ParenCount(tokens, Len(tokens), "(") > ParenCount(tokens, Len(tokens), ")")

\* C5: toRPN fails with 'Mismatched parentheses' exactly on the token
\* sequences with unbalanced parentheses, and fails in no other way.
C5_MismatchedIffUnbalanced ==
    out.st # "none" =>
        /\ out.st \in {"ok", "throw"}
        /\ out.st = "throw" <=> Unbalanced(src)
        /\ out.st = "throw" => out.msg = MsgMismatched

\* The tokens of '(5+5' were transformed and the transformation threw.
C5_Witness ==
    /\ src = <<Token("paren", <<"(">>), Token("number", <<"5">>),
               Token("op", <<"+">>), Token("number", <<"5">>)>>
    /\ out.st = "throw"

\* C6: evaluate() on the empty buffer displays '0'.
C6_EmptyDisplaysZero ==
    [][ (EvaluateStep /\ input = <<>>) => display' = StrZero ]_vars

\* The decimal digits of an integer.
IntText(i) == (IF i < 0 THEN <<"-">> ELSE <<>>) \o IntDigits(Abs(i))

\* C7: a successful evaluate() with an integer result stores and displays
\* all the decimal digits of the result.
C7_IntegerKeepsDigits ==
    [][ (EvaluateStep /\ ParserEvaluate(OrZero(input)).st = "ok"
           /\ IsInt(ParserEvaluate(OrZero(input)).v))
            => /\ input' = IntText(ParserEvaluate(OrZero(input)).v.n)
               /\ display' = input' ]_vars

\* The text is the decimal of x to 12 significant digits, trailing fraction
\* zeros apart.
SameTo12Digits(text, x) == StripFraction(text) = StripFraction(ToPrecision(x))

\* C8: after a successful evaluate() with a finite result, the buffer
\* tokenizes as one Number token that equals the result to 12 significant
\* digits, and evaluating the buffer again succeeds.
C8_RoundTrip ==
    [][ (EvaluateStep /\ ParserEvaluate(OrZero(input)).st = "ok"
           /\ IsFinite(ParserEvaluate(OrZero(input)).v))
            => /\ tokenize(input').st = "ok"
               /\ Len(tokenize(input').toks) = 1
               /\ tokenize(input').toks[1].type = "number"
               /\ SameTo12Digits(tokenize(input').toks[1].value,
                                 ParserEvaluate(OrZero(input)).v)
               /\ toRPN(tokenize(input').toks).st = "ok"
               /\ evaluateRPN(toRPN(tokenize(input').toks).toks).st # "throw" ]_vars

\* C9: append of a fragment with a character outside the allowed set changes
\* neither buffer nor display and makes no callback; append of any other
\* fragment concatenates it whole and displays the buffer, or '0' if empty.
C9_AppendFilter ==
    [][ \A f \in Fragments :
          op' = Call("append", f) =>
            IF \E i \in 1..Len(f) : ~AllowedChar(f[i])
            THEN input' = input /\ display' = display /\ ncalls' = 0
            ELSE /\ input' = input \o f
                 /\ ncalls' = 1
                 /\ display' = (IF input' = <<>> THEN StrZero ELSE input') ]_vars

\* '5$' was appended to the buffer '5'.
C9_Witness ==
    /\ op = Call("append", <<"5", "$">>)
    /\ input = <<"5">>
    /\ display = <<"5">>
    /\ ncalls = 0

\* The rule of the specification for popping top when the operator t arrives.
PopRule(top, t) ==
    \/ ~RIGHT_ASSOC(top.value) /\ PRECEDENCE(top.value) >= PRECEDENCE(t.value)
    \/ RIGHT_ASSOC(top.value) /\ PRECEDENCE(top.value) > PRECEDENCE(t.value)

\* C10: when toRPN meets an operator t, an operator on top of the stack is
\* popped to the output exactly when PopRule says so, a function on top is
\* always popped, an open parenthesis on top stays, and t is pushed after.
C10_PopRule ==
    out.st # "none" =>
        \A k \in 1..Len(src) :
            LET s == RPNState(src, k - 1)
                s2 == RPNState(src, k)
                top == s.ops[Len(s.ops)]
                popped == /\ Len(s2.output) > Len(s.output)
                          /\ s2.output[Len(s.output) + 1] = top
            IN  (src[k].type = "op" /\ s.st = "ok" /\ Len(s.ops) > 0)
                  => /\ s2.ops[Len(s2.ops)] = src[k]
                     /\ top.type = "op" => (popped <=> PopRule(top, src[k]))
                     /\ top.type = "fn" => popped
                     /\ top.type = "paren" => (~popped /\ s2.ops = Append(s.ops, src[k]))

\* The tokens of '5^5^' were transformed: '^' met '^' on top of the stack.
C10_Witness ==
    /\ src = <<Token("number", <<"5">>), Token("op", <<"^">>),
               Token("number", <<"5">>), Token("op", <<"^">>)>>
    /\ out.st = "ok"

====
